---- MODULE Spec2Model ----
(***************************************************************************)
(* A model of flowers.cpp ("Flowers for Algorithm"): a rat with four       *)
(* drives is routed through a maze graph by a Dijkstra-style search until  *)
(* it returns to the entrance.                                             *)
(*                                                                         *)
(* Five specifications share the variables and the actions:                *)
(*   Spec        the whole program, main() from loadGraph to return, on a  *)
(*               missing input file and on every file of 18 triples;       *)
(*   SpecLoad    the call of loadGraph on every input file, the files      *)
(*               of fewer than 18 triples included;                        *)
(*   SpecRoute   one call of findRoute on every graph of a bounded family, *)
(*               for every (current location, target) pair;                *)
(*   SpecDrives  the drive functions identifyState, updateState and        *)
(*               satisfyNeed applied to drive values drawn from sets;      *)
(*   SpecScenario the loop of main from the drives {fun:10, health:50,     *)
(*               hunger:5, sleep:20} on every well-formed input file.      *)
(***************************************************************************)
EXTENDS Integers, Sequences, FiniteSets

\* ------------------------------------------------------------------------
\* Program constants (flowers.cpp:37-42)
FUN_MAX == 35
HEALTH_MAX == 60
HUNGER_MAX == 30
SLEEP_MAX == 40
VERTEX_COUNT == 18
INFINITY_APPROX == 42

\* The threshold of identifyState (flowers.cpp:181) and the local `base`
\* of findLeast (flowers.cpp:448), literals in the source.
SATISFIED_PERCENT == 50
LEAST_BASE == 42

\* ------------------------------------------------------------------------
\* Bounds of the model
\* initializeDrives: each drive is drawn from DriveSamples evenly spaced
\* values of [0, max).
DriveSamples == 3
\* SpecRoute: edge weights of the generated graphs are drawn from 0..MaxWeight.
MaxWeight == 2
\* The iteration counter of the do-while loop saturates at MaxIter.
MaxIter == 21
\* SpecDrives: updateState is applied to travel distances 0..MaxTravel.
MaxTravel == 8

\* ------------------------------------------------------------------------
\* Nodes and their indices
Nodes == {"E", "N", "F", "A", "W", "B", "M"}

\* The value of a local that was declared and never assigned (int node in
\* findLeast, int nodeNumber in nodeToNumber, char nodeLetter in
\* numberToNode); as a character it is written "?".
Uninit == -1
UninitChar == "?"

\* The variable node before findLeast has been called in the current search.
NotCalled == -2

\* The letter removeVertex writes over a removed edge (flowers.cpp:439-440).
Removed == "Z"

nodeToNumber(nodeLetter) ==
    CASE nodeLetter = "E" -> 0
      [] nodeLetter = "N" -> 1
      [] nodeLetter = "F" -> 2
      [] nodeLetter = "A" -> 3
      [] nodeLetter = "W" -> 4
      [] nodeLetter = "B" -> 5
      [] nodeLetter = "M" -> 6
      [] OTHER -> Uninit

numberToNode(nodeNumber) ==
    CASE nodeNumber = 0 -> "E"
      [] nodeNumber = 1 -> "N"
      [] nodeNumber = 2 -> "F"
      [] nodeNumber = 3 -> "A"
      [] nodeNumber = 4 -> "W"
      [] nodeNumber = 5 -> "B"
      [] nodeNumber = 6 -> "M"
      [] OTHER -> UninitChar

\* Indices of int nodeWeight[VERTEX_COUNT/2] (flowers.cpp:318)
WeightIndex == 0 .. ((VERTEX_COUNT \div 2) - 1)

\* Indices of edgeWeight baseGraph[VERTEX_COUNT] (flowers.cpp:89)
EdgeIndex == 1 .. VERTEX_COUNT

Edge(i, t, w) == [initial |-> i, terminal |-> t, weight |-> w]

\* ------------------------------------------------------------------------
\* The arithmetic of int: 32 bits, two's complement. A sum, difference or
\* product that leaves the range wraps around, which is what the builds do;
\* the operators compute the wrapped value without leaving the range
\* themselves.
INT_MAX == 2147483647
INT_MIN == (-INT_MAX) - 1

\* a + b in int
Add32(a, b) ==
    IF b > 0 /\ a > INT_MAX - b
    THEN ((a - INT_MAX) - 1) + ((b - INT_MAX) - 1)
    ELSE IF b < 0 /\ a < INT_MIN - b
    THEN ((a + INT_MAX) + 1) + ((b + INT_MAX) + 1)
    ELSE a + b

\* a - b in int
Sub32(a, b) ==
    IF b < 0 /\ a > INT_MAX + b
    THEN ((a - INT_MAX) - 1) - ((b + INT_MAX) + 1)
    ELSE IF b > 0 /\ a < INT_MIN + b
    THEN ((a + INT_MAX) + 1) - ((b - INT_MAX) - 1)
    ELSE a - b

\* 100 * a in int. With a = h * 2^16 + l and 0 <= l < 2^16 the product is
\* 100 * h * 2^16 + 100 * l, and of 100 * h only the low 16 bits, read as a
\* signed number, stay within the 32 bits.
Times100(a) ==
    LET h == a \div 65536
        l == a % 65536
        m == (100 * h) % 65536
    IN  Add32((IF m >= 32768 THEN m - 65536 ELSE m) * 65536, 100 * l)

\* a / b in int for b > 0: the quotient is truncated towards zero
Quotient(a, b) ==
    IF a >= 0 \/ a % b = 0 THEN a \div b ELSE (a \div b) + 1

\* ------------------------------------------------------------------------
\* Drive Tracker: pure functions

ratState(f, h, g, s) == [fun |-> f, health |-> h, hunger |-> g, sleep |-> s]

\* flowers.cpp:189-195
setPercentage(d) ==
    [fun    |-> Quotient(Times100(d.fun), FUN_MAX),
     health |-> Quotient(Times100(d.health), HEALTH_MAX),
     hunger |-> Quotient(Times100(d.hunger), HUNGER_MAX),
     sleep  |-> Quotient(Times100(d.sleep), SLEEP_MAX)]

\* C5 mutant: the comparison chain with <= (a later drive wins a tie)
Classify_tie(p) ==
    LET i0 == p.health
        b0 == "M"
        i1 == IF p.hunger <= i0 THEN p.hunger ELSE i0
        b1 == IF p.hunger <= i0 THEN "F" ELSE b0
        i2 == IF p.sleep <= i1 THEN p.sleep ELSE i1
        b2 == IF p.sleep <= i1 THEN "N" ELSE b1
        i3 == IF p.fun <= i2 THEN p.fun ELSE i2
        b3 == IF p.fun <= i2 THEN "W" ELSE b2
    IN  IF SATISFIED_PERCENT < i3 THEN "E" ELSE b3

\* C6 mutant: the exit test as 50 <= index
Classify_atleast(p) ==
    LET i0 == p.health
        b0 == "M"
        i1 == IF p.hunger < i0 THEN p.hunger ELSE i0
        b1 == IF p.hunger < i0 THEN "F" ELSE b0
        i2 == IF p.sleep < i1 THEN p.sleep ELSE i1
        b2 == IF p.sleep < i1 THEN "N" ELSE b1
        i3 == IF p.fun < i2 THEN p.fun ELSE i2
        b3 == IF p.fun < i2 THEN "W" ELSE b2
    IN  IF SATISFIED_PERCENT <= i3 THEN "E" ELSE b3

\* C4 mutant: the exit test looks at the health percentage only
Classify_healthonly(p) ==
    LET i0 == p.health
        b0 == "M"
        i1 == IF p.hunger < i0 THEN p.hunger ELSE i0
        b1 == IF p.hunger < i0 THEN "F" ELSE b0
        i2 == IF p.sleep < i1 THEN p.sleep ELSE i1
        b2 == IF p.sleep < i1 THEN "N" ELSE b1
        i3 == IF p.fun < i2 THEN p.fun ELSE i2
        b3 == IF p.fun < i2 THEN "W" ELSE b2
    IN  IF SATISFIED_PERCENT < p.health THEN "E" ELSE b3

\* flowers.cpp:159, 165-182: the comparison chain of identifyState on the
\* percentages; index and biggestNeed after each if.
Classify(p) ==
    LET i0 == p.health
        b0 == "M"
        i1 == IF p.hunger < i0 THEN p.hunger ELSE i0
        b1 == IF p.hunger < i0 THEN "F" ELSE b0
        i2 == IF p.sleep < i1 THEN p.sleep ELSE i1
        b2 == IF p.sleep < i1 THEN "N" ELSE b1
        i3 == IF p.fun < i2 THEN p.fun ELSE i2
        b3 == IF p.fun < i2 THEN "W" ELSE b2
    IN  IF SATISFIED_PERCENT < i3 THEN "E" ELSE b3

\* flowers.cpp:156-186
identifyState(d) == Classify(setPercentage(d))

\* C11 mutant: the sleep drive is not decremented
updateState_skipsleep(d, t) ==
    [fun    |-> IF Sub32(d.fun, t) < 0 THEN 0 ELSE Sub32(d.fun, t),
     health |-> IF Sub32(d.health, t) < 0 THEN 0 ELSE Sub32(d.health, t),
     hunger |-> IF Sub32(d.hunger, t) < 0 THEN 0 ELSE Sub32(d.hunger, t),
     sleep  |-> d.sleep]

\* flowers.cpp:230-244
updateState(d, t) ==
    [fun    |-> IF Sub32(d.fun, t) < 0 THEN 0 ELSE Sub32(d.fun, t),
     health |-> IF Sub32(d.health, t) < 0 THEN 0 ELSE Sub32(d.health, t),
     hunger |-> IF Sub32(d.hunger, t) < 0 THEN 0 ELSE Sub32(d.hunger, t),
     sleep  |-> IF Sub32(d.sleep, t) < 0 THEN 0 ELSE Sub32(d.sleep, t)]

\* C10 mutant: the food bowl refills health as well
satisfyNeed_both(d, loc) ==
    CASE loc = "F" -> [d EXCEPT !.hunger = HUNGER_MAX, !.health = HEALTH_MAX]
      [] loc = "M" -> [d EXCEPT !.health = HEALTH_MAX]
      [] loc = "N" -> [d EXCEPT !.sleep = SLEEP_MAX]
      [] loc = "W" -> [d EXCEPT !.fun = FUN_MAX]
      [] OTHER -> d

\* C20 mutant: the food bowl refills nothing
satisfyNeed_nofood(d, loc) ==
    CASE loc = "M" -> [d EXCEPT !.health = HEALTH_MAX]
      [] loc = "N" -> [d EXCEPT !.sleep = SLEEP_MAX]
      [] loc = "W" -> [d EXCEPT !.fun = FUN_MAX]
      [] OTHER -> d

\* flowers.cpp:247-275
satisfyNeed(d, loc) ==
    CASE loc = "F" -> [d EXCEPT !.hunger = HUNGER_MAX]
      [] loc = "M" -> [d EXCEPT !.health = HEALTH_MAX]
      [] loc = "N" -> [d EXCEPT !.sleep = SLEEP_MAX]
      [] loc = "W" -> [d EXCEPT !.fun = FUN_MAX]
      [] OTHER -> d

\* ------------------------------------------------------------------------
\* Shortest Path Engine: pure functions

\* flowers.cpp:301-309
copyGraph(g) ==
    [i \in EdgeIndex |->
        [initial |-> g[i].initial, terminal |-> g[i].terminal, weight |-> g[i].weight]]

\* flowers.cpp:410-414
initializeNodeWeight == [i \in WeightIndex |-> INFINITY_APPROX]

\* flowers.cpp:421-429, the loop from edge i on. nodeWeight[currentNum] is
\* read again for every edge, as in the source.
RECURSIVE findNeighborsFrom(_, _, _, _, _)
findNeighborsFrom(g, nw, cNode, cNum, i) ==
    IF i > VERTEX_COUNT THEN nw
    ELSE IF cNode = g[i].initial
         THEN LET neighborNode == nodeToNumber(g[i].terminal)
                  nw1 == IF Add32(g[i].weight, nw[cNum]) < nw[neighborNode]
                         THEN [nw EXCEPT ![neighborNode] = Add32(g[i].weight, nw[cNum])]
                         ELSE nw
              IN  findNeighborsFrom(g, nw1, cNode, cNum, i + 1)
         ELSE findNeighborsFrom(g, nw, cNode, cNum, i + 1)

\* flowers.cpp:417-430
findNeighbors(g, nw, cNode, cNum) == findNeighborsFrom(g, nw, cNode, cNum, 1)

\* findNeighbors indexes nodeWeight with nodeToNumber(terminal): defined
\* only when every edge leaving the current node ends at a node letter.
findNeighborsDefined(g, cNode) ==
    \A i \in EdgeIndex : g[i].initial = cNode => g[i].terminal \in Nodes

\* flowers.cpp:433-443
removeVertex(g, loc) ==
    [i \in EdgeIndex |->
        IF g[i].terminal = loc
        THEN [g[i] EXCEPT !.initial = Removed, !.terminal = Removed]
        ELSE g[i]]

\* flowers.cpp:452-459, the loop from index i on with the locals base, node
RECURSIVE findLeastFrom(_, _, _, _)
findLeastFrom(nw, i, base, nd) ==
    IF i >= VERTEX_COUNT \div 2 THEN nd
    ELSE IF nw[i] # 0 /\ nw[i] < base
         THEN findLeastFrom(nw, i + 1, nw[i], i)
         ELSE findLeastFrom(nw, i + 1, base, nd)

\* C18 mutant: the test with <=, so that the last of equal minima is kept
findLeast_lasttie(nw) ==
    LET fringe == {i \in WeightIndex : nw[i] # 0 /\ nw[i] < LEAST_BASE}
    IN  IF fringe = {} THEN Uninit
        ELSE CHOOSE i \in fringe :
                \A j \in fringe : nw[i] < nw[j] \/ (nw[i] = nw[j] /\ j <= i)

\* flowers.cpp:446-459: the value of `node` after the loop; Uninit when no
\* entry passed the test, and then numberToNode reads an unassigned int.
findLeast(nw) == findLeastFrom(nw, 0, LEAST_BASE, Uninit)

\* ------------------------------------------------------------------------
\* Inputs

\* The contents of the file graphWeights read by loadGraph: absent, or a
\* sequence of (initial, terminal, weight) triples.
NoFile == [present |-> FALSE, triples |-> <<>>]
FileOf(t) == [present |-> TRUE, triples |-> t]

\* Both directions of each edge of a list
BothWays(es) ==
    es \o [i \in 1 .. Len(es) |-> Edge(es[i].terminal, es[i].initial, es[i].weight)]

\* A maze of nine corridors, each usable in both directions: 18 triples
MazeTriples ==
    BothWays(<< Edge("E", "N", 2), Edge("E", "F", 1), Edge("N", "A", 1),
                Edge("F", "A", 2), Edge("A", "W", 1), Edge("A", "B", 2),
                Edge("W", "M", 1), Edge("B", "M", 1), Edge("N", "W", 2) >>)

\* A one-way ring E -> N -> F -> W -> M -> E whose corridors weigh ws[1..5];
\* the other 13 triples repeat a corridor between the two unused nodes.
RingTriples(ws) ==
    << Edge("E", "N", ws[1]), Edge("N", "F", ws[2]), Edge("F", "W", ws[3]),
       Edge("W", "M", ws[4]), Edge("M", "E", ws[5]) >>
    \o [i \in 1 .. 13 |-> Edge("A", "B", 1)]

\* The ring 2, -1, 2, 2, 2 holds the triple "N F -1": operator>> reads a
\* negative number into an int like any other. On the ring 1, 1, 1, 9, 9 the
\* way from W back to the entrance is longer than half a full hunger drive.
RingInputs == { <<1, 1, 1, 1, 1>>, <<3, 3, 3, 3, 3>>, <<5, 5, 6, 6, 6>>,
                <<11, 11, 11, 11, 11>>, <<2, -1, 2, 2, 2>>, <<1, 1, 1, 9, 9>> }

\* The input files the read loop fills the whole of baseGraph from
CompleteFiles ==
    {FileOf(MazeTriples)} \cup {FileOf(RingTriples(ws)) : ws \in RingInputs}

\* The maze file cut after its 17th triple
ShortTriples == SubSeq(MazeTriples, 1, VERTEX_COUNT - 1)

\* Every complete file cut after n of its triples, n = 0 .. 17
ShortFiles ==
    {FileOf(SubSeq(f.triples, 1, n)) : f \in CompleteFiles, n \in 0 .. (VERTEX_COUNT - 1)}

FileInputs == {NoFile} \cup CompleteFiles \cup ShortFiles

\* An entry of baseGraph that nothing has written. The array is a local of
\* main and is not initialised (flowers.cpp:89): such an entry holds the
\* eight bytes the stack held before, which differ from build to build and
\* from run to run (a word of an address, of a count, of a path or of an
\* environment string). Its two chars are any bytes, node letters or not,
\* and its weight is any int: every edge of GarbageEdges. The model does not
\* draw these bytes. It writes the one value Indeterminate for such an
\* entry, which stands for every edge of GarbageEdges, and follows the
\* program on an edge list with such an entry through loadGraph only.
GarbageWeights == INT_MIN .. INT_MAX

\* The bytes of an unwritten entry's chars: a node letter, or any other byte
GarbageChars == Nodes \cup {UninitChar}

GarbageEdges ==
    [initial : GarbageChars, terminal : GarbageChars, weight : GarbageWeights]

Indeterminate == Edge(UninitChar, UninitChar, Uninit)

\* The entry m of the model stands for the edge e the program holds
Holds(m, e) == IF m = Indeterminate THEN e \in GarbageEdges ELSE m = e

\* initializeDrives draws rand() % max; the model draws DriveSamples evenly
\* spaced values of [0, max) for each drive, and the start of the
\* end-to-end scenario {fun:10, health:50, hunger:5, sleep:20}.
DriveSample(max) == {(i * max) \div DriveSamples : i \in 0 .. (DriveSamples - 1)}

ScenarioDrives == ratState(10, 50, 5, 20)

DriveInputs ==
    [fun : DriveSample(FUN_MAX), health : DriveSample(HEALTH_MAX),
     hunger : DriveSample(HUNGER_MAX), sleep : DriveSample(SLEEP_MAX)]
    \cup {ScenarioDrives}

\* SpecRoute: every graph on the nodes E, N, F in which each of the edges
\* E->N, E->F, N->F, F->N is absent (-1) or weighs 0..MaxWeight; the entries
\* of the 18-entry list that carry no such edge hold a corridor between the
\* unused nodes.
RoutePairs ==
    << <<"E", "N">>, <<"E", "F">>, <<"N", "F">>, <<"F", "N">> >>

FillerEdge == Edge("A", "B", 1)

RouteGraph(w) ==
    [i \in EdgeIndex |->
        IF i <= Len(RoutePairs) /\ w[i] >= 0
        THEN Edge(RoutePairs[i][1], RoutePairs[i][2], w[i])
        ELSE FillerEdge]

RouteGraphs == {RouteGraph(w) : w \in [1 .. Len(RoutePairs) -> (-1) .. MaxWeight]}

\* The current locations of SpecRoute are the three nodes of the generated
\* graphs; the targets are these and W, which no generated edge touches.
RouteStarts == {"E", "N", "F"}
RouteEnds == {"E", "N", "F", "W"}

\* SpecDrives: the drive values whose percentage is one of these
PercentInputs == {0, 10, 40, 50, 51, 52, 53, 60, 90, 91, 100}

DriveValues(max) == {v \in 0 .. max : (100 * v) \div max \in PercentInputs}

\* ------------------------------------------------------------------------
\* State

VARIABLES
    file,             \* the contents of graphWeights
    pc,               \* the statement of main / findRoute about to run
    baseGraph,        \* main: edgeWeight baseGraph[VERTEX_COUNT]
    newGraph,         \* main: edgeWeight newGraph[VERTEX_COUNT]
    currentLocation,  \* main: char currentLocation
    currentState,     \* main: char currentState
    travel,           \* main: int travel
    drives,           \* main: ratState drives
    percent,          \* identifyState: ratState percent
    nodeWeight,       \* findRoute: int nodeWeight[VERTEX_COUNT/2]
    currentNode,      \* findRoute: char currentNode
    currentNum,       \* findRoute: int currentNum
    terminalNode,     \* findRoute: char terminalNode
    node,             \* findLeast: int node as the last call of this search left it
    iterations        \* passes of the do-while loop begun so far (saturating)

vars == << file, pc, baseGraph, newGraph, currentLocation, currentState, travel,
           drives, percent, nodeWeight, currentNode, currentNum, terminalNode,
           node, iterations >>

routeVars == << newGraph, nodeWeight, currentNode, currentNum, terminalNode, node >>

\* Locals that are declared without a value hold these until first assigned.
\* The program reads none of them before, except the entries of baseGraph
\* that loadGraph leaves unwritten.
NoGraph == [i \in EdgeIndex |-> Indeterminate]
NoDrives == ratState(0, 0, 0, 0)
NoWeights == [i \in WeightIndex |-> 0]

\* flowers.cpp:86-93: main's locals before loadGraph is called. The whole
\* program is followed on the missing file and on the complete files; what
\* it does after a short file depends on the bytes of the unwritten
\* entries, and that run is followed through loadGraph only (SpecLoad).
Init ==
    /\ file \in {NoFile} \cup CompleteFiles
    /\ pc = "loadGraph"
    /\ baseGraph = NoGraph
    /\ newGraph = NoGraph
    /\ currentLocation = "E"
    /\ currentState = UninitChar
    /\ travel = 0
    /\ drives = NoDrives
    /\ percent = NoDrives
    /\ nodeWeight = NoWeights
    /\ currentNode = UninitChar
    /\ currentNum = Uninit
    /\ terminalNode = UninitChar
    /\ node = NotCalled
    /\ iterations = 0

\* ------------------------------------------------------------------------
\* main

\* flowers.cpp:293-294: the read loop on an open file f, run on the array g.
\* An extraction past the end of the file fails and leaves entry i of the
\* array as it was.
loadGraph(f, g) ==
    [i \in EdgeIndex |-> IF i <= Len(f.triples) THEN f.triples[i] ELSE g[i]]

\* C14 mutant: is_open() is not tested, the read loop runs on the closed stream
LoadGraph_noopentest ==
    /\ pc = "loadGraph"
    /\ pc' = "initializeDrives"
    /\ baseGraph' = loadGraph(file, baseGraph)
    /\ UNCHANGED << file, newGraph, currentLocation, currentState, travel, drives,
                    percent, nodeWeight, currentNode, currentNum, terminalNode,
                    node, iterations >>

\* flowers.cpp:95-97, 279-298. A missing file ends the program with status
\* 1. Otherwise the loop reads 18 triples into baseGraph and loadGraph
\* returns true, whether or not every extraction succeeded: the entries
\* past the end of a short file stay unwritten.
LoadGraph ==
    /\ pc = "loadGraph"
    /\ IF ~file.present
       THEN /\ pc' = "return1"
            /\ baseGraph' = baseGraph
       ELSE /\ pc' = "initializeDrives"
            /\ baseGraph' = loadGraph(file, baseGraph)
    /\ UNCHANGED << file, newGraph, currentLocation, currentState, travel, drives,
                    percent, nodeWeight, currentNode, currentNum, terminalNode,
                    node, iterations >>

\* C13 mutant: a while loop, tested before its first pass
InitializeDrives_testfirst ==
    /\ pc = "initializeDrives"
    /\ drives' \in DriveInputs
    /\ pc' = "while"
    /\ UNCHANGED << file, baseGraph, newGraph, currentLocation, currentState, travel,
                    percent, nodeWeight, currentNode, currentNum, terminalNode,
                    node, iterations >>

\* flowers.cpp:104, 145-153
InitializeDrives ==
    /\ pc = "initializeDrives"
    /\ drives' \in DriveInputs
    /\ pc' = "copyGraph"
    /\ UNCHANGED << file, baseGraph, newGraph, currentLocation, currentState, travel,
                    percent, nodeWeight, currentNode, currentNum, terminalNode,
                    node, iterations >>

\* C12 mutant: the working copy is taken once, before the loop
CopyGraph_once ==
    /\ pc = "copyGraph"
    /\ newGraph' = IF iterations = 0 THEN copyGraph(baseGraph) ELSE newGraph
    /\ iterations' = IF iterations < MaxIter THEN iterations + 1 ELSE iterations
    /\ pc' = "identifyState"
    /\ UNCHANGED << file, baseGraph, currentLocation, currentState, travel, drives,
                    percent, nodeWeight, currentNode, currentNum, terminalNode, node >>

\* flowers.cpp:105-107: a pass of the do-while loop begins
CopyGraph ==
    /\ pc = "copyGraph"
    /\ newGraph' = copyGraph(baseGraph)
    /\ iterations' = IF iterations < MaxIter THEN iterations + 1 ELSE iterations
    /\ pc' = "identifyState"
    /\ UNCHANGED << file, baseGraph, currentLocation, currentState, travel, drives,
                    percent, nodeWeight, currentNode, currentNum, terminalNode, node >>

\* C15 mutant: setPercentage writes the percentages into the drives themselves
IdentifyState_inplace ==
    /\ pc = "identifyState"
    /\ percent' = setPercentage(drives)
    /\ drives' = setPercentage(drives)
    /\ currentState' = identifyState(drives)
    /\ pc' = "findRoute"
    /\ UNCHANGED << file, baseGraph, newGraph, currentLocation, travel,
                    nodeWeight, currentNode, currentNum, terminalNode, node, iterations >>

\* flowers.cpp:108, 156-186
IdentifyState ==
    /\ pc = "identifyState"
    /\ percent' = setPercentage(drives)
    /\ currentState' = identifyState(drives)
    /\ pc' = "findRoute"
    /\ UNCHANGED << file, baseGraph, newGraph, currentLocation, travel, drives,
                    nodeWeight, currentNode, currentNum, terminalNode, node, iterations >>

\* flowers.cpp:110, 230-244
UpdateState ==
    /\ pc = "updateState"
    /\ drives' = updateState(drives, travel)
    /\ pc' = "satisfyNeed"
    /\ UNCHANGED << file, baseGraph, newGraph, currentLocation, currentState, travel,
                    percent, nodeWeight, currentNode, currentNum, terminalNode,
                    node, iterations >>

\* C16 mutant: the travel distance is subtracted after the drive is refilled
SatisfyNeed_thendecay ==
    /\ pc = "satisfyNeed"
    /\ drives' = updateState(satisfyNeed(drives, currentLocation), travel)
    /\ pc' = "while"
    /\ UNCHANGED << file, baseGraph, newGraph, currentLocation, currentState, travel,
                    percent, nodeWeight, currentNode, currentNum, terminalNode,
                    node, iterations >>

\* flowers.cpp:111, 247-275
SatisfyNeed ==
    /\ pc = "satisfyNeed"
    /\ drives' = satisfyNeed(drives, currentLocation)
    /\ pc' = "while"
    /\ UNCHANGED << file, baseGraph, newGraph, currentLocation, currentState, travel,
                    percent, nodeWeight, currentNode, currentNum, terminalNode,
                    node, iterations >>

\* flowers.cpp:113-119: the loop test, then return 0
WhileTest ==
    /\ pc = "while"
    /\ pc' = IF currentLocation # "E" THEN "copyGraph" ELSE "return0"
    /\ UNCHANGED << file, baseGraph, newGraph, currentLocation, currentState, travel,
                    drives, percent, nodeWeight, currentNode, currentNum, terminalNode,
                    node, iterations >>

\* ------------------------------------------------------------------------
\* findRoute

\* C9 mutant: the source's own entry is left at infinity (line 326 missing)
FindRouteEnter_nosource ==
    /\ pc = "findRoute"
    /\ currentNode' = currentLocation
    /\ terminalNode' = currentState
    /\ currentNum' = nodeToNumber(currentLocation)
    /\ nodeWeight' = initializeNodeWeight
    /\ node' = NotCalled
    /\ pc' = "findRoute_while"
    /\ UNCHANGED << file, baseGraph, newGraph, currentLocation, currentState, travel,
                    drives, percent, iterations >>

\* flowers.cpp:109, 322-326
FindRouteEnter ==
    /\ pc = "findRoute"
    /\ currentNode' = currentLocation
    /\ terminalNode' = currentState
    /\ currentNum' = nodeToNumber(currentLocation)
    /\ nodeWeight' = [initializeNodeWeight EXCEPT ![nodeToNumber(currentLocation)] = 0]
    /\ node' = NotCalled
    /\ pc' = "findRoute_while"
    /\ UNCHANGED << file, baseGraph, newGraph, currentLocation, currentState, travel,
                    drives, percent, iterations >>

\* flowers.cpp:328-337: one pass of the while loop. Two places have no
\* defined outcome, and the model takes every outcome there:
\*  - findNeighbors indexes nodeWeight with an unassigned int when an edge
\*    leaving the current node ends at no node letter: pc becomes
\*    "undefined" and the program is followed no further;
\*  - findLeast returns numberToNode of an unassigned int when no entry of
\*    nodeWeight lies strictly between 0 and 42: the new current node is any
\*    node letter, or no node letter at all (then pc becomes "undefined").
FindRouteStep ==
    /\ pc = "findRoute_while"
    /\ currentNode # terminalNode
    /\ IF ~findNeighborsDefined(newGraph, currentNode)
       THEN /\ pc' = "undefined"
            /\ UNCHANGED routeVars
       ELSE LET nw1 == findNeighbors(newGraph, nodeWeight, currentNode, currentNum)
                nw2 == [nw1 EXCEPT ![currentNum] = 0]
                least == findLeast(nw2)
            IN  /\ newGraph' = removeVertex(newGraph, currentNode)
                /\ nodeWeight' = nw2
                /\ node' = least
                /\ terminalNode' = terminalNode
                /\ IF least # Uninit
                   THEN /\ currentNode' = numberToNode(least)
                        /\ currentNum' = nodeToNumber(numberToNode(least))
                        /\ pc' = IF numberToNode(least) \in Nodes
                                 THEN "findRoute_while" ELSE "undefined"
                   ELSE \E c \in Nodes \cup {UninitChar} :
                        /\ currentNode' = c
                        /\ currentNum' = nodeToNumber(c)
                        /\ pc' = IF c \in Nodes THEN "findRoute_while" ELSE "undefined"
    /\ UNCHANGED << file, baseGraph, currentLocation, currentState, travel,
                    drives, percent, iterations >>

\* flowers.cpp:328, 339-342: the loop ends and findRoute returns
FindRouteReturn ==
    /\ pc = "findRoute_while"
    /\ currentNode = terminalNode
    /\ currentLocation' = currentNode
    /\ travel' = nodeWeight[currentNum]
    /\ pc' = "updateState"
    /\ UNCHANGED << file, baseGraph, newGraph, currentState, drives, percent,
                    nodeWeight, currentNode, currentNum, terminalNode, node, iterations >>

\* ------------------------------------------------------------------------
\* Specifications

\* The whole program
Next ==
    \/ LoadGraph
    \/ InitializeDrives
    \/ CopyGraph
    \/ IdentifyState
    \/ FindRouteEnter
    \/ FindRouteStep
    \/ FindRouteReturn
    \/ UpdateState
    \/ SatisfyNeed
    \/ WhileTest

Spec == Init /\ [][Next]_vars

\* The program under the scheduling it has: a single thread that runs each
\* statement as soon as it is reached.
FairSpec == Spec /\ WF_vars(Next)

\* The call of loadGraph at flowers.cpp:95, on every input file: the missing
\* file, the complete files and every file of 0 to 17 triples, whose
\* entries past the last triple are left unwritten.
InitLoad ==
    /\ file \in FileInputs
    /\ pc = "loadGraph"
    /\ baseGraph = NoGraph
    /\ newGraph = NoGraph
    /\ currentLocation = "E"
    /\ currentState = UninitChar
    /\ travel = 0
    /\ drives = NoDrives
    /\ percent = NoDrives
    /\ nodeWeight = NoWeights
    /\ currentNode = UninitChar
    /\ currentNum = Uninit
    /\ terminalNode = UninitChar
    /\ node = NotCalled
    /\ iterations = 0

NextLoad == LoadGraph

SpecLoad == InitLoad /\ [][NextLoad]_vars

\* One call of findRoute: the state at flowers.cpp:109 with the working copy
\* just taken, for every generated graph, current location and target.
InitRoute ==
    /\ file = NoFile
    /\ pc = "findRoute"
    /\ baseGraph \in RouteGraphs
    /\ newGraph = copyGraph(baseGraph)
    /\ currentLocation \in RouteStarts
    /\ currentState \in RouteEnds
    /\ travel = 0
    /\ drives = NoDrives
    /\ percent = NoDrives
    /\ nodeWeight = NoWeights
    /\ currentNode = UninitChar
    /\ currentNum = Uninit
    /\ terminalNode = UninitChar
    /\ node = NotCalled
    /\ iterations = 1

NextRoute ==
    \/ FindRouteEnter
    \/ FindRouteStep
    \/ FindRouteReturn

SpecRoute == InitRoute /\ [][NextRoute]_vars

\* The drive functions on their own: identifyState at flowers.cpp:108, and
\* updateState followed by satisfyNeed at flowers.cpp:110-111, for drive
\* values, travel distances and locations drawn from sets.
InitDrives ==
    /\ file = NoFile
    /\ baseGraph = NoGraph
    /\ newGraph = NoGraph
    /\ currentState = UninitChar
    /\ percent = NoDrives
    /\ nodeWeight = NoWeights
    /\ currentNode = UninitChar
    /\ currentNum = Uninit
    /\ terminalNode = UninitChar
    /\ node = NotCalled
    /\ iterations = 1
    /\ drives \in [fun : DriveValues(FUN_MAX), health : DriveValues(HEALTH_MAX),
                   hunger : DriveValues(HUNGER_MAX), sleep : DriveValues(SLEEP_MAX)]
    /\ \/ /\ pc = "identifyState"
          /\ currentLocation = "E"
          /\ travel = 0
       \/ /\ pc = "updateState"
          /\ currentLocation \in Nodes
          /\ travel \in 0 .. MaxTravel

NextDrives ==
    \/ IdentifyState
    \/ UpdateState
    \/ SatisfyNeed

SpecDrives == InitDrives /\ [][NextDrives]_vars

\* ------------------------------------------------------------------------
\* Reference definitions for the properties

RECURSIVE EdgeSumFrom(_, _)
EdgeSumFrom(g, i) == IF i > VERTEX_COUNT THEN 0 ELSE g[i].weight + EdgeSumFrom(g, i + 1)

\* The sum of the edge weights of an edge list
EdgeSum(g) == EdgeSumFrom(g, 1)

\* A valid graph: edges between node letters, non-negative weights whose sum
\* is below the sentinel
ValidGraph(g) ==
    /\ \A i \in EdgeIndex :
         g[i].initial \in Nodes /\ g[i].terminal \in Nodes /\ g[i].weight >= 0
    /\ EdgeSum(g) < INFINITY_APPROX

\* A cost no path of g has
NoPath(g) == EdgeSum(g) + 1

MinOf(S) == CHOOSE x \in S : \A y \in S : x <= y

\* One round of relaxing every edge of g (Bellman-Ford); inf stands for
\* "no path found yet"
Round(g, D, inf) ==
    [n \in Nodes |->
        MinOf({D[n]} \cup
              {D[g[i].initial] + g[i].weight :
                 i \in {j \in EdgeIndex : /\ g[j].terminal = n
                                          /\ g[j].initial \in Nodes
                                          /\ D[g[j].initial] < inf}})]

\* Rounds until nothing changes, at most k of them
RECURSIVE Rounds(_, _, _, _)
Rounds(g, D, inf, k) ==
    IF k = 0 THEN D
    ELSE LET D1 == Round(g, D, inf)
         IN  IF D1 = D THEN D ELSE Rounds(g, D1, inf, k - 1)

\* The least total weight of a path of g from `from` to `to`; NoPath(g) when
\* there is none
MinDist(g, from, to) ==
    LET inf == NoPath(g)
    IN  Rounds(g, [n \in Nodes |-> IF n = from THEN 0 ELSE inf], inf,
               Cardinality(Nodes) - 1)[to]

Reachable(g, from, to) == MinDist(g, from, to) < NoPath(g)

\* The search is at its loop test for a target it was started on
Searching == pc = "findRoute_while"

\* ------------------------------------------------------------------------
\* Properties of findRoute (SpecRoute)

\* C1: for every valid graph and every pair (from, to) with to reachable
\* from from, findRoute returns the minimum total weight of a path from
\* from to to: the search never selects an unassigned node, and the value
\* it is about to return at the end of its loop is that minimum.
C1_ReturnsShortestDistance ==
    (/\ pc \in {"findRoute_while", "undefined"}
     /\ ValidGraph(baseGraph)
     /\ Reachable(baseGraph, currentLocation, terminalNode))
    => /\ pc # "undefined"
       /\ node # Uninit
       /\ currentNode = terminalNode
            => nodeWeight[currentNum] = MinDist(baseGraph, currentLocation, terminalNode)

\* C2: when the target is not reachable from the current location the
\* search never takes an unassigned node as its next current node (it ends
\* in a reported outcome instead).
C2_UnreachableIsReported ==
    (/\ pc \in {"findRoute_while", "undefined"}
     /\ ~Reachable(baseGraph, currentLocation, terminalNode))
    => /\ pc # "undefined"
       /\ node # Uninit

\* C9: findRoute with the current location X as its target returns 0,
\* leaves the current location X, and neither relaxes an entry of
\* nodeWeight nor removes an edge: from entry to return the working copy is
\* the full edge list, nodeWeight is at infinity except for X, and findLeast
\* is not called.
C9_SameNodeZero ==
    [][ /\ (pc = "findRoute" /\ currentLocation = currentState)
            => /\ pc' = "findRoute_while"
               /\ newGraph' = newGraph
               /\ nodeWeight' = [i \in WeightIndex |->
                                   IF i = nodeToNumber(currentLocation)
                                   THEN 0 ELSE INFINITY_APPROX]
        /\ (pc = "findRoute_while" /\ currentLocation = terminalNode)
            => /\ pc' = "updateState"
               /\ travel' = 0
               /\ currentLocation' = currentLocation
               /\ newGraph' = copyGraph(baseGraph)
               /\ nodeWeight' = nodeWeight
               /\ node' = NotCalled
      ]_vars

\* C9 witness: a search for the node the rat stands on has returned
C9_Witness ==
    /\ pc = "updateState"
    /\ currentLocation = "N"
    /\ currentState = "N"
    /\ travel = 0
    /\ node = NotCalled
    /\ \E i \in EdgeIndex : baseGraph[i].initial = "N" /\ baseGraph[i].weight > 0

\* ------------------------------------------------------------------------
\* The end-to-end scenario (SpecScenario)

\* A well-formed graph: valid, strictly positive weights, and E, N, F, W, M
\* mutually reachable
NeedNodes == {"E", "N", "F", "W", "M"}

WellFormed(g) ==
    /\ ValidGraph(g)
    /\ \A i \in EdgeIndex : g[i].weight > 0
    /\ \A a \in NeedNodes : \A b \in NeedNodes : Reachable(g, a, b)

\* flowers.cpp:104-105: the state in which the do-while loop is entered
\* when the seed gives initializeDrives the drives {fun:10, health:50,
\* hunger:5, sleep:20}, for every input file that holds a well-formed graph.
InitScenario ==
    /\ file \in {f \in FileInputs :
                   /\ f.present
                   /\ Len(f.triples) = VERTEX_COUNT
                   /\ WellFormed(loadGraph(f, NoGraph))}
    /\ pc = "copyGraph"
    /\ baseGraph = loadGraph(file, NoGraph)
    /\ newGraph = NoGraph
    /\ currentLocation = "E"
    /\ currentState = UninitChar
    /\ travel = 0
    /\ drives = ScenarioDrives
    /\ percent = NoDrives
    /\ nodeWeight = NoWeights
    /\ currentNode = UninitChar
    /\ currentNum = Uninit
    /\ terminalNode = UninitChar
    /\ node = NotCalled
    /\ iterations = 0

NextScenario ==
    \/ CopyGraph
    \/ IdentifyState
    \/ FindRouteEnter
    \/ FindRouteStep
    \/ FindRouteReturn
    \/ UpdateState
    \/ SatisfyNeed
    \/ WhileTest

SpecScenario == InitScenario /\ [][NextScenario]_vars

\* The scenario under the program's scheduling: one thread that runs each
\* statement as soon as it is reached.
FairScenario == SpecScenario /\ WF_vars(NextScenario)

\* The first pass of the loop goes to the food bowl, and the program
\* returns only from the entrance.
FoodFirst ==
    /\ pc # "undefined"
    /\ node # Uninit
    /\ (iterations = 1 /\ pc \in {"findRoute", "findRoute_while"}) => currentState = "F"
    /\ (iterations = 1 /\ pc \in {"updateState", "satisfyNeed", "while", "copyGraph"})
         => currentLocation = "F" /\ travel = MinDist(baseGraph, "E", "F")
    /\ (iterations = 1 /\ pc \in {"while", "copyGraph"})
         => drives = [fun    |-> IF 10 - travel < 0 THEN 0 ELSE 10 - travel,
                      health |-> IF 50 - travel < 0 THEN 0 ELSE 50 - travel,
                      hunger |-> HUNGER_MAX,
                      sleep  |-> IF 20 - travel < 0 THEN 0 ELSE 20 - travel]
    /\ pc = "return0" => currentLocation = "E"

\* C3: started at E with drives {fun:10, health:50, hunger:5, sleep:20} on a
\* well-formed graph, the loop routes to the Food node in its first
\* iteration, and the program eventually returns with the agent at the
\* entrance after at most 20 iterations. (On the ring with corridors
\* 5, 5, 6, 6, 6 the drives of pass 14 are those of pass 5 again and the
\* formula fails under FairScenario: the loop has no iteration cap.)
C3_TerminatesWithin20 ==
    /\ []FoodFirst
    /\ <>(pc = "return0" /\ currentLocation = "E" /\ iterations <= 20)

\* ------------------------------------------------------------------------
\* Properties of the whole program (Spec)

AllAbove(p, x) == p.fun > x /\ p.health > x /\ p.hunger > x /\ p.sleep > x

\* C4 (as stated): when the loop terminates the location is E and all four
\* percentages of the drive values held at termination are above 50.
C4_SatisfiedAtTermination ==
    pc = "return0" =>
        /\ currentLocation = "E"
        /\ AllAbove(setPercentage(drives), 50)

\* The four drives and the maximum of each (flowers.cpp:37-40)
DriveNames == {"fun", "health", "hunger", "sleep"}

DriveMax(k) ==
    CASE k = "fun" -> FUN_MAX
      [] k = "health" -> HEALTH_MAX
      [] k = "hunger" -> HUNGER_MAX
      [] k = "sleep" -> SLEEP_MAX

\* The percentage setPercentage computes for the value v of drive k
PercentOf(k, v) == Quotient(Times100(v), DriveMax(k))

\* C4 (amended): when the loop terminates the location is E, the need
\* classified in the last pass was Exit, and the four percentages that
\* identifyState computed in that pass, before the trip to the entrance,
\* were all above 50; each drive value held at termination is the value
\* that percentage was computed from, less the last trip's distance and not
\* below 0: a drive above 0 is exactly the distance below it, and a drive at
\* 0 was no more than the distance.
C4_SatisfiedBeforeLastTrip ==
    pc = "return0" =>
        /\ currentLocation = "E"
        /\ currentState = "E"
        /\ AllAbove(percent, 50)
        /\ \A k \in DriveNames :
              /\ drives[k] >= 0
              /\ drives[k] > 0 => percent[k] = PercentOf(k, drives[k] + travel)
              /\ drives[k] = 0 => percent[k] <= PercentOf(k, travel)

\* C4 witness: the program has returned after a trip to the entrance that
\* left one drive at 0 and another above 0 and at or below 50 percent
C4_Witness ==
    /\ pc = "return0"
    /\ iterations >= 2
    /\ travel > 0
    /\ AllAbove(percent, 50)
    /\ \E k \in DriveNames : drives[k] = 0
    /\ \E k \in DriveNames : drives[k] > 0 /\ PercentOf(k, drives[k]) <= 50

\* C7: after initializeDrives, in every state of the simulation, each drive
\* lies within its bounds.
C7_DrivesWithinBounds ==
    pc \notin {"loadGraph", "initializeDrives", "return1"} =>
        /\ 0 <= drives.fun /\ drives.fun <= FUN_MAX
        /\ 0 <= drives.health /\ drives.health <= HEALTH_MAX
        /\ 0 <= drives.hunger /\ drives.hunger <= HUNGER_MAX
        /\ 0 <= drives.sleep /\ drives.sleep <= SLEEP_MAX

\* C8: a graph file with fewer than 18 triples is a load failure: the
\* program goes from loadGraph to return 1 and never on to the simulation.
C8_ShortFileIsLoadFailure ==
    (file.present /\ Len(file.triples) < VERTEX_COUNT) => pc \in {"loadGraph", "return1"}

\* ------------------------------------------------------------------------
\* Properties of the drive functions (SpecDrives)

\* The percentages are the floors of 100 * value / max
PercentOfDrives ==
    /\ percent.fun * FUN_MAX <= 100 * drives.fun
    /\ 100 * drives.fun < (percent.fun + 1) * FUN_MAX
    /\ percent.health * HEALTH_MAX <= 100 * drives.health
    /\ 100 * drives.health < (percent.health + 1) * HEALTH_MAX
    /\ percent.hunger * HUNGER_MAX <= 100 * drives.hunger
    /\ 100 * drives.hunger < (percent.hunger + 1) * HUNGER_MAX
    /\ percent.sleep * SLEEP_MAX <= 100 * drives.sleep
    /\ 100 * drives.sleep < (percent.sleep + 1) * SLEEP_MAX

MinPercent(p) == MinOf({p.health, p.hunger, p.sleep, p.fun})

\* The need of the first drive, in the order health, hunger, sleep, fun,
\* whose percentage is the minimum
FirstLowest(p) ==
    IF p.health = MinPercent(p) THEN "M"
    ELSE IF p.hunger = MinPercent(p) THEN "F"
    ELSE IF p.sleep = MinPercent(p) THEN "N"
    ELSE "W"

\* C5: when at least one percentage is 50 or lower, identifyState returns
\* the need of the drive with the minimum percentage, the earlier drive in
\* the order health, hunger, sleep, fun winning a tie; the chain gives Nap
\* for {health:40, hunger:40, sleep:10, fun:90} and Medicine for
\* {health:40, hunger:40, sleep:90, fun:40}.
C5_LowestDriveEarliestWins ==
    /\ (pc = "findRoute" /\ MinPercent(percent) <= 50)
         => PercentOfDrives /\ currentState = FirstLowest(percent)
    /\ Classify([health |-> 40, hunger |-> 40, sleep |-> 10, fun |-> 90]) = "N"
    /\ Classify([health |-> 40, hunger |-> 40, sleep |-> 90, fun |-> 40]) = "M"

\* C5 witness: identifyState has classified a three-way tie for the minimum
C5_Witness ==
    /\ pc = "findRoute"
    /\ percent = [health |-> 40, hunger |-> 40, sleep |-> 90, fun |-> 40]
    /\ currentState = "M"

\* C6: identifyState returns Exit if and only if all four percentages are
\* above 50; a minimum of exactly 50 does not give Exit.
C6_ExitIffAllAbove50 ==
    pc = "findRoute" =>
        /\ PercentOfDrives
        /\ currentState = "E" <=> AllAbove(percent, 50)
        /\ MinPercent(percent) = 50 => currentState # "E"

\* C6 witness: identifyState has classified drives whose minimum percentage
\* is exactly 50
C6_Witness ==
    /\ pc = "findRoute"
    /\ percent.sleep = 50
    /\ percent.health > 50 /\ percent.hunger > 50 /\ percent.fun > 50
    /\ currentState = "N"

\* C10: satisfyNeed at F, M, N, W sets hunger, health, sleep, fun
\* respectively to its maximum and leaves the other three drives as they
\* were; at E, A, B it leaves all four as they were.
C10_SatisfyOnlyOneDrive ==
    [][ pc = "satisfyNeed" =>
          /\ currentLocation = "F" =>
               drives' = [drives EXCEPT !.hunger = 30]
          /\ currentLocation = "M" =>
               drives' = [drives EXCEPT !.health = 60]
          /\ currentLocation = "N" =>
               drives' = [drives EXCEPT !.sleep = 40]
          /\ currentLocation = "W" =>
               drives' = [drives EXCEPT !.fun = 35]
          /\ currentLocation \in {"E", "A", "B"} => drives' = drives
          /\ currentLocation' = currentLocation
      ]_vars

\* C10 witness: satisfyNeed has run at the medicine dispenser and the other
\* drives are below their maxima
C10_Witness ==
    /\ pc = "while"
    /\ currentLocation = "M"
    /\ drives.health = HEALTH_MAX
    /\ drives.hunger < HUNGER_MAX /\ drives.sleep < SLEEP_MAX /\ drives.fun < FUN_MAX


\* ------------------------------------------------------------------------
\* Further properties of the drive functions (SpecDrives)

MaxOf(a, b) == IF a >= b THEN a ELSE b

\* C11: updateState with a travel distance d >= 0 sets every drive to
\* max(0, old value - d); no drive is left negative.
C11_DecayClampedAtZero ==
    [][ (pc = "updateState" /\ travel >= 0) =>
          \A k \in DriveNames :
             /\ drives'[k] = MaxOf(0, drives[k] - travel)
             /\ drives'[k] >= 0
      ]_vars

\* C11 witness: updateState has run with a distance that exceeds hunger and
\* not health: hunger is at 0 and health is 5 below its maximum
C11_Witness ==
    /\ pc = "satisfyNeed"
    /\ travel = 5
    /\ drives.hunger = 0
    /\ drives.health = HEALTH_MAX - 5
    /\ drives.sleep = SLEEP_MAX - 5


\* ------------------------------------------------------------------------
\* Further properties of the whole program (Spec)

\* C12: once loaded, baseGraph is never changed, whatever the number of
\* passes of the loop: a pass of the search changes only newGraph, and
\* every search is entered with newGraph equal to the full baseGraph.
C12_BaseGraphNeverChanged ==
    [][ /\ pc # "loadGraph" => baseGraph' = baseGraph
        /\ pc = "findRoute" => newGraph = baseGraph /\ newGraph' = baseGraph
      ]_vars

\* C12 witness: in a second or later pass the search has pruned the working
\* copy, and baseGraph still holds the 18 triples of the maze file
C12_Witness ==
    /\ pc = "findRoute_while"
    /\ iterations >= 2
    /\ newGraph # baseGraph
    /\ \E i \in EdgeIndex : newGraph[i].initial = Removed
    /\ baseGraph = [i \in EdgeIndex |-> MazeTriples[i]]


\* The order of the statements of main and findRoute: the pairs (statement
\* left, statement reached) of one step
StatementOrder ==
    { <<"loadGraph", "return1">>, <<"loadGraph", "initializeDrives">>,
      <<"initializeDrives", "copyGraph">>, <<"copyGraph", "identifyState">>,
      <<"identifyState", "findRoute">>, <<"findRoute", "findRoute_while">>,
      <<"findRoute_while", "findRoute_while">>, <<"findRoute_while", "undefined">>,
      <<"findRoute_while", "updateState">>, <<"updateState", "satisfyNeed">>,
      <<"satisfyNeed", "while">>, <<"while", "copyGraph">>, <<"while", "return0">> }

\* C13: the loop runs one full pass (classify, route, decay, satisfy) before
\* its first test, also when the rat starts at the exit with all drives
\* above 50 percent, and it stops after exactly the first pass that ends
\* with the current location E: the statements follow in the order of the
\* loop body, the test is reached only from satisfyNeed of a pass, a test
\* at E returns at once and a test elsewhere begins another pass.
C13_AtLeastOnePassStopAtE ==
    [][ /\ <<pc, pc'>> \in StatementOrder
        /\ pc' = "while" => iterations' >= 1
        /\ pc = "while" =>
             pc' = IF currentLocation = "E" THEN "return0" ELSE "copyGraph"
        /\ pc' = "return0" => (currentLocation' = "E" /\ iterations' >= 1)
        /\ pc = "copyGraph" => iterations' = MinOf({iterations + 1, MaxIter})
      ]_vars

\* C13 witness: started at the exit with all drives above 50 percent, the
\* program has returned after one pass, a trip of distance 0
C13_Witness ==
    /\ pc = "return0"
    /\ iterations = 1
    /\ currentState = "E"
    /\ travel = 0
    /\ AllAbove(percent, 50)
    /\ percent = setPercentage(drives)


\* C14: when graphWeights cannot be opened, loading fails and the program
\* ends with status 1 without initialising the drives or running a pass of
\* the loop: the only step the program takes is from loadGraph to return 1,
\* and it leaves the drives unassigned and the pass counter at 0.
C14_MissingFileExits1 ==
    [][ ~file.present =>
          /\ pc = "loadGraph"
          /\ pc' = "return1"
          /\ drives' = NoDrives
          /\ baseGraph' = NoGraph
          /\ iterations' = 0
      ]_vars

\* C14 witness: the program has returned 1 on a missing file
C14_Witness ==
    /\ ~file.present
    /\ pc = "return1"
    /\ iterations = 0


\* C15: identifyState has no hidden mutation and is repeatable: the call
\* leaves the four drive values as they were, and the need it returned is
\* the need a second call on the drive state it left behind returns.
C15_IdentifyStateRepeatable ==
    [][ pc = "identifyState" =>
          /\ drives' = drives
          /\ currentState' = identifyState(drives')
          /\ currentState' \in NeedNodes
      ]_vars

\* C15 witness: identifyState has returned Food for drives whose percentages,
\* had they been written over the drives, would classify as Exit
C15_Witness ==
    /\ pc = "findRoute"
    /\ drives = ratState(FUN_MAX, HEALTH_MAX, 12, SLEEP_MAX)
    /\ currentState = "F"
    /\ identifyState(percent) = "E"


\* ------------------------------------------------------------------------
\* The order of a pass of the loop (Spec)

\* The drive a need refills
DriveOfNeed(n) ==
    CASE n = "F" -> "hunger"
      [] n = "M" -> "health"
      [] n = "N" -> "sleep"
      [] n = "W" -> "fun"

\* r is max(0, v - t), the difference taken in the integers; no int is that
\* value when the difference is above INT_MAX
IsDecayed(r, v, t) ==
    IF t < 0 /\ v > INT_MAX + t THEN FALSE
    ELSE IF t > 0 /\ v < INT_MIN + t THEN r = 0
    ELSE r = MaxOf(0, v - t)

\* C16: a pass of the loop runs classify, route, decay, satisfy in that
\* order. The drives keep their value from the start of the pass until the
\* search has returned; the search leaves the rat at the node of the
\* classified need; updateState then sets every drive to max(0, value - the
\* distance returned); satisfyNeed runs last, so that for a need F, M, N or W
\* its drive ends the pass at exactly its maximum and the other three end it
\* at max(0, value before the pass - distance).
C16_ClassifyRouteDecaySatisfy ==
    [][ /\ pc \in {"copyGraph", "identifyState", "findRoute", "findRoute_while"}
            => drives' = drives
        /\ pc = "identifyState" => pc' = "findRoute"
        /\ pc = "findRoute" => pc' = "findRoute_while" /\ terminalNode' = currentState
        /\ pc' = "updateState" =>
             /\ pc = "findRoute_while"
             /\ currentLocation' = currentState
             /\ travel' = nodeWeight[currentNum]
        /\ pc = "updateState" =>
             /\ pc' = "satisfyNeed"
             /\ \A k \in DriveNames : IsDecayed(drives'[k], drives[k], travel)
        /\ pc = "satisfyNeed" =>
             /\ pc' = "while"
             /\ currentLocation' = currentState'
             /\ travel' = travel
             /\ currentState \in {"F", "M", "N", "W"} =>
                  \A k \in DriveNames :
                     drives'[k] = IF k = DriveOfNeed(currentState)
                                  THEN DriveMax(k) ELSE drives[k]
      ]_vars

\* C16 witness: the first pass has ended at the food bowl after a trip of a
\* positive distance: hunger is at its maximum and the other drives of the
\* start (fun 10, health 50, sleep 20) are lower by the distance
C16_Witness ==
    /\ pc = "while"
    /\ iterations = 1
    /\ currentState = "F" /\ currentLocation = "F"
    /\ travel > 0
    /\ drives = ratState(10 - travel, 50 - travel, HUNGER_MAX, 20 - travel)

\* ------------------------------------------------------------------------
\* Properties of the steps of the search (SpecRoute)

\* A node other than the current one has been processed as the current node
\* of this search: its distance entry is 0 and removeVertex has left no edge
\* of the working copy that terminates at it.  (An entry that a 0-weight edge
\* set to 0 still has that edge terminating at it.)
Finalized(v) ==
    /\ nodeWeight[nodeToNumber(v)] = 0
    /\ \A i \in EdgeIndex : newGraph[i].terminal # v

\* C17: within one search a finalized node stays finalized: after the pass
\* that processes the current node no edge of the working copy terminates at
\* it and its distance entry is 0, every node finalized earlier still has no
\* edge terminating at it and the entry 0, and the node selected as the next
\* current node is neither the node just processed nor a node finalized
\* earlier.
C17_FinalizedNeverSelectedAgain ==
    [][ (/\ pc = "findRoute_while"
         /\ currentNode # terminalNode
         /\ findNeighborsDefined(newGraph, currentNode))
        => /\ \A i \in EdgeIndex : newGraph'[i].terminal # currentNode
           /\ nodeWeight'[currentNum] = 0
           /\ \A v \in Nodes \ {currentNode} :
                Finalized(v) =>
                   /\ nodeWeight'[nodeToNumber(v)] = 0
                   /\ \A i \in EdgeIndex : newGraph'[i].terminal # v
                   /\ currentNode' # v
           /\ currentNode' # currentNode
      ]_vars


\* The entries of nodeWeight strictly between 0 (visited) and 42 (infinity)
Fringe == {i \in WeightIndex : 0 < nodeWeight[i] /\ nodeWeight[i] < INFINITY_APPROX}

\* C18: whenever at least one entry of nodeWeight lies strictly between 0
\* and 42, the node findLeast returned is the one with the smallest such
\* entry, the lowest index among equal minima; its entry is neither 0 nor
\* 42, and it is the node the search takes as its current node.
C18_FindLeastSmallestFirstIndex ==
    (node # NotCalled /\ Fringe # {}) =>
        /\ node \in Fringe
        /\ nodeWeight[node] # 0 /\ nodeWeight[node] # INFINITY_APPROX
        /\ \A j \in Fringe : nodeWeight[node] <= nodeWeight[j]
        /\ \A j \in Fringe : nodeWeight[j] = nodeWeight[node] => node <= j
        /\ currentNode = numberToNode(node)
        /\ currentNum = node

\* C18 witness: findLeast has chosen between two equal minima, with visited
\* entries and entries at infinity present
C18_Witness ==
    /\ pc = "findRoute_while"
    /\ node \in Fringe
    /\ \E j \in Fringe : j > node /\ nodeWeight[j] = nodeWeight[node]
    /\ \E j \in WeightIndex : nodeWeight[j] = 0
    /\ \E j \in WeightIndex : nodeWeight[j] = INFINITY_APPROX
    /\ currentNode = numberToNode(node)


\* ------------------------------------------------------------------------
\* The edge lists loadGraph accepts (Spec)

\* C19: every edge list that loadGraph accepts and hands to the loop has
\* edge weights summing to less than the sentinel 42, and every distance
\* findRoute returns is below the sentinel.
C19_AcceptedWeightsBelowSentinel ==
    /\ pc \notin {"loadGraph", "return1"} => EdgeSum(baseGraph) < INFINITY_APPROX
    /\ pc = "updateState" => travel < INFINITY_APPROX


\* C20: in every pass of the loop after the first, the rat stands at the
\* node F, M, N or W it reached in the pass before, with that node's drive
\* at its maximum, and the need identifyState returns names another node;
\* the target of a search equals the current location only in a first pass,
\* which starts at E, with the classification Exit.
C20_NeedAwayFromLocation ==
    /\ (pc \in {"identifyState", "findRoute"} /\ iterations >= 2) =>
          /\ currentLocation \in {"F", "M", "N", "W"}
          /\ drives[DriveOfNeed(currentLocation)] = DriveMax(DriveOfNeed(currentLocation))
    /\ (pc = "findRoute" /\ iterations >= 2) => currentState # currentLocation
    /\ (pc = "findRoute" /\ currentState = currentLocation) =>
          /\ iterations = 1
          /\ currentLocation = "E"
          /\ AllAbove(percent, SATISFIED_PERCENT)

\* C20 witness: in a later pass identifyState has returned a need other than
\* Exit while the drive of the node the rat stands at is at 100 percent
C20_Witness ==
    /\ pc = "findRoute"
    /\ iterations >= 2
    /\ currentLocation \in {"F", "M", "N", "W"}
    /\ percent[DriveOfNeed(currentLocation)] = 100
    /\ currentState \notin {"E", currentLocation}

====
